---- MODULE Spec2Model ----
(***************************************************************************)
(* A model of src/lib.rs of awsm-game: the Game controller (camera offset, *)
(* nphysics World, canvas), the boxes scene builder, the canvas renderer   *)
(* and the keydown listener.                                               *)
(*                                                                         *)
(* Lengths are integer hundredths of a unit (0.1 is 10).  The camera       *)
(* offset is an f64: it is modelled as an integer-valued double with the   *)
(* 53 bit significand of IEEE-754 binary64, held in two limbs of 27 bits   *)
(* because TLC's integers have 32 bits.  A rigid body's pose is the pose   *)
(* it was inserted with together with the number of engine ticks that      *)
(* have integrated it since (the engine itself is an external crate).      *)
(***************************************************************************)
EXTENDS Integers, Sequences, FiniteSets, TLC

VARIABLES
    x_offset,   \* Game.x_offset : f64
    world,      \* Game.world : nphysics2d World
    canvas,     \* the 2d context of Game.canvas and the calls of the last render
    listeners,  \* the document's event listener list
    console,    \* the lines written by console.debug
    host,       \* which of window / document the host provides
    ret,        \* what the last listen_for_keys call returned
    closures,   \* number of Closure objects created so far
    hist        \* history: the calls made so far

vars == <<x_offset, world, canvas, listeners, console, host, ret, closures, hist>>

-----------------------------------------------------------------------------
(* Bounds of the model *)

\* total number of calls and delivered events in one behaviour
MaxOps == 3

-----------------------------------------------------------------------------
(* f64 arithmetic on integer-valued doubles *)

\* 2^27: a double v is hi * Limb + lo with 0 <= lo < Limb
Limb == 134217728

F64(h, l) == [hi |-> h + (l \div Limb), lo |-> l % Limb]

Zero == F64(0, 0)
One == F64(0, 1)
\* 2^53, the first double whose successor is 2 away
Two53 == F64(67108864, 0)

Neg(v) == F64(0 - v.hi, 0 - v.lo)

ExactAdd(a, b) == F64(a.hi + b.hi, a.lo + b.lo)

\* the spacing of doubles at magnitude m >= 0 (m < 2^56)
Ulp(m) ==
    IF m.hi < 67108864 THEN 1
    ELSE IF m.hi < 134217728 THEN 2
    ELSE IF m.hi < 268435456 THEN 4
    ELSE 8

\* round-to-nearest, ties-to-even of a magnitude m >= 0 to 53 significant bits
RoundMag(m) ==
    LET u == Ulp(m)
        r == m.lo % u
        down == m.lo - r
    IN  IF r = 0 THEN m
        ELSE IF 2 * r < u THEN F64(m.hi, down)
        ELSE IF 2 * r > u THEN F64(m.hi, down + u)
        ELSE IF (down \div u) % 2 = 0 THEN F64(m.hi, down)
        ELSE F64(m.hi, down + u)

Round(v) == IF v.hi < 0 THEN Neg(RoundMag(Neg(v))) ELSE RoundMag(v)

\* a sum that is clamped at 0 from below
FAdd_clamped(a, b) ==
    IF ExactAdd(a, b).hi < 0 THEN F64(0, 0) ELSE Round(ExactAdd(a, b))

\* the f64 + of line 60
FAdd(a, b) == Round(ExactAdd(a, b))

\* |v| <= 2^53: the range in which every integer is a double
InExactRange(v) ==
    LET m == IF v.hi < 0 THEN Neg(v) ELSE v
    IN  m.hi < 67108864 \/ (m.hi = 67108864 /\ m.lo = 0)

-----------------------------------------------------------------------------
(* The physics World *)

\* BodyHandle::ground()
GroundHandle == 0

\* World::new(): no gravity, no bodies, no colliders, time 0
World_new == [gravity |-> <<0, 0>>, bodies |-> <<>>, colliders |-> <<>>, ticks |-> 0]

\* margin = 0.01
Margin == 1

make_box_shape(radx, rady) == [kind |-> "Cuboid", hx |-> radx, hy |-> rady]

\* the rigid body world.add_rigid_body registers: its pose is the transform,
\* its inertia and centre of mass are those of the shape
make_simple_body(transform, shape) ==
    [kind |-> "rigid", x |-> transform[1], y |-> transform[2], angle |-> transform[3],
     inertiaOf |-> shape, age |-> 0]

\* the collider world.add_collider registers for body handle `body`
make_simple_collider(shape, body) ==
    [body |-> body, shape |-> shape, margin |-> Margin, x |-> 0, y |-> 0]

\* the ground collider: half extents (125 - margin, 1 - margin) at (0, 9)
make_ground ==
    [body |-> GroundHandle,
     shape |-> [kind |-> "Cuboid", hx |-> 12500 - Margin, hy |-> 100 - Margin],
     margin |-> Margin, x |-> 0, y |-> 900]

\* SimpleBox::new for the body handle the world hands out next
SimpleBox_new(handle, transform, radx, rady) ==
    LET shape == make_box_shape(radx, rady)
    IN  [shape |-> shape,
         body |-> handle,
         bodyRec |-> make_simple_body(transform, shape),
         collisionObject |-> make_simple_collider(shape, handle)]

num == 25
radx == 10
rady == 10
shiftx == radx * 2
shifty == rady * 3
centerx == (shiftx * num) \div 2
centery == shifty \div 2

\* the pose of the k-th box created by the loops (i outer, j inner)
GridPos(k) ==
    LET i == (k - 1) \div num
        j == (k - 1) % num
    IN  <<i * shiftx - centerx, j * shifty + centery, 0>>

\* the scene with the inner loop one short (num * (num - 1) boxes)
setup_nphysics_boxes_scene_short(w) ==
    LET base == Len(w.bodies)
        n == num * (num - 1)
        boxes == [k \in 1..n |-> SimpleBox_new(base + k, GridPos(k), radx, rady)]
    IN  [w EXCEPT
            !.gravity = <<0, 981>>,
            !.bodies = @ \o [k \in 1..n |-> boxes[k].bodyRec],
            !.colliders = (@ \o <<make_ground>>) \o [k \in 1..n |-> boxes[k].collisionObject]]

setup_nphysics_boxes_scene(w) ==
    LET base == Len(w.bodies)
        boxes == [k \in 1..(num * num) |-> SimpleBox_new(base + k, GridPos(k), radx, rady)]
    IN  [w EXCEPT
            !.gravity = <<0, 981>>,
            !.bodies = @ \o [k \in 1..(num * num) |-> boxes[k].bodyRec],
            !.colliders = (@ \o <<make_ground>>)
                            \o [k \in 1..(num * num) |-> boxes[k].collisionObject]]

\* a step that returns early on a World without bodies
World_step_lazy(w) ==
    IF w.bodies = <<>> THEN w
    ELSE [w EXCEPT
            !.ticks = @ + 1,
            !.bodies = [k \in 1..Len(w.bodies) |-> [w.bodies[k] EXCEPT !.age = @ + 1]]]

\* World::step: one tick; every rigid body is integrated once more
World_step(w) ==
    [w EXCEPT
        !.ticks = @ + 1,
        !.bodies = [k \in 1..Len(w.bodies) |-> [w.bodies[k] EXCEPT !.age = @ + 1]]]

\* World::rigid_body(handle): Some for the handle of a rigid body
HasRigidBody(w, handle) ==
    /\ handle \in 1..Len(w.bodies)
    /\ w.bodies[handle].kind = "rigid"

-----------------------------------------------------------------------------
(* The canvas *)

\* drawing every collider of a rigid body, whatever its shape
ColliderCalls_anyShape(w, c) ==
    IF c.body \in 1..Len(w.bodies) /\ w.bodies[c.body].kind = "rigid"
    THEN LET b == w.bodies[c.body]
             wd == IF c.shape.kind = "Cuboid" THEN c.shape.hx ELSE c.shape.radius
             ht == IF c.shape.kind = "Cuboid" THEN c.shape.hy ELSE c.shape.radius
         IN  << <<"begin_path">>,
                <<"save">>,
                <<"scale", 100, 100>>,
                <<"translate", [x |-> b.x - wd, y |-> b.y - ht, age |-> b.age]>>,
                <<"rotate", [angle |-> b.angle, age |-> b.age]>>,
                <<"rect", 0, 0, wd * 2, ht * 2>>,
                <<"fill">>,
                <<"restore">> >>
    ELSE <<>>

\* what render_nphysics_world does for one collider: the canvas calls for
\* a box on a rigid body, a debug line for another shape on a rigid body,
\* nothing for a collider without a rigid body
ColliderCalls(w, c) ==
    IF HasRigidBody(w, c.body)
    THEN IF c.shape.kind = "Cuboid"
         THEN LET b == w.bodies[c.body]
                  wd == c.shape.hx
                  ht == c.shape.hy
              IN  << <<"begin_path">>,
                     <<"save">>,
                     <<"scale", 100, 100>>,
                     <<"translate", [x |-> b.x - wd, y |-> b.y - ht, age |-> b.age]>>,
                     <<"rotate", [angle |-> b.angle, age |-> b.age]>>,
                     <<"rect", 0, 0, wd * 2, ht * 2>>,
                     <<"fill">>,
                     <<"restore">> >>
         ELSE << <<"debug", "not painting">> >>
    ELSE <<>>

\* world.colliders().for_each over colliders lo..hi, in order
RECURSIVE ForEachCollider(_, _, _)
ForEachCollider(w, lo, hi) ==
    IF lo > hi THEN <<>>
    ELSE IF lo = hi THEN ColliderCalls(w, w.colliders[lo])
    ELSE LET mid == (lo + hi) \div 2
         IN  ForEachCollider(w, lo, mid) \o ForEachCollider(w, mid + 1, hi)

render_nphysics_world(w) == ForEachCollider(w, 1, Len(w.colliders))

\* a render that forgets the closing restore
RenderCalls_noRestore(w, off) ==
    << <<"clear_rect">>, <<"save">>, <<"translate", off, 0>> >>
        \o render_nphysics_world(w)

\* what Game::render_scene does, in order
RenderCalls(w, off) ==
    << <<"clear_rect">>, <<"save">>, <<"translate", off, 0>> >>
        \o render_nphysics_world(w)
        \o << <<"restore">> >>

\* the canvas calls / the debug lines among what a render does
CanvasCalls(effects) == SelectSeq(effects, LAMBDA e : e[1] # "debug")
DebugLines(effects) ==
    LET d == SelectSeq(effects, LAMBDA e : e[1] = "debug")
    IN  [k \in 1..Len(d) |-> Tail(d[k])]

\* the effect of one CanvasRenderingContext2d call on the drawing state:
\* save pushes the transform, restore pops it (and does nothing on an empty
\* stack), translate / scale / rotate compose onto the transform
CtxCall(ctx, call) ==
    IF call[1] = "save" THEN [ctx EXCEPT !.stack = Append(@, ctx.xf)]
    ELSE IF call[1] = "restore"
        THEN IF ctx.stack = <<>> THEN ctx
             ELSE [ctx EXCEPT !.xf = ctx.stack[Len(ctx.stack)],
                              !.stack = SubSeq(@, 1, Len(@) - 1)]
    ELSE IF call[1] \in {"translate", "scale", "rotate"}
        THEN [ctx EXCEPT !.xf = Append(@, call)]
    ELSE ctx

\* the drawing state after calls lo..hi, in order (the first half is run to
\* its end, a state with a stack, before the second half starts)
RECURSIVE CtxRun(_, _, _, _)
CtxRun(ctx, calls, lo, hi) ==
    IF lo > hi THEN ctx
    ELSE IF lo = hi THEN CtxCall(ctx, calls[lo])
    ELSE LET mid == (lo + hi) \div 2
             first == CtxRun(ctx, calls, lo, mid)
         IN  IF Len(first.stack) >= 0 THEN CtxRun(first, calls, mid + 1, hi) ELSE first

-----------------------------------------------------------------------------
(* The host *)

Hosts == {"ok", "no_window", "no_document"}
Keys == {"a"}
PanArgs == {One, Neg(One), Two53, Neg(Two53)}

\* get_document: the document, or the panic of the failing expect
get_document ==
    IF host = "no_window" THEN <<"panic", "no global window exists">>
    ELSE IF host = "no_document" THEN <<"panic", "should have a document on window">>
    ELSE <<"document">>

\* a listener list that holds one callback per event type
add_event_listener_byType(ls, type, cb) ==
    IF \E k \in 1..Len(ls) : ls[k][1] = type THEN ls ELSE Append(ls, <<type, cb>>)

\* EventTarget.addEventListener: a (type, callback) pair already in the list
\* is not added again
add_event_listener(ls, type, cb) ==
    IF \E k \in 1..Len(ls) : ls[k] = <<type, cb>> THEN ls ELSE Append(ls, <<type, cb>>)

OpNames == {"setup_boxes_scene", "pan", "render_scene", "step", "listen_for_keys", "keydown"}

Total == hist.n["setup_boxes_scene"] + hist.n["pan"] + hist.n["render_scene"]
            + hist.n["step"] + hist.n["listen_for_keys"] + hist.n["keydown"]

\* one more call of op; twice: a render_scene directly after a render_scene
Record(op) ==
    [hist EXCEPT !.n[op] = @ + 1, !.last = op,
                 !.twice = (op = "render_scene" /\ hist.last = "render_scene")]

-----------------------------------------------------------------------------
(* Init: the state after Game::new *)

Init ==
    /\ x_offset = Zero
    /\ world = World_new
    /\ canvas = [stack |-> <<>>, xf |-> <<>>, log |-> <<>>]
    /\ listeners = <<>>
    /\ console = << <<"game config">> >>
    /\ host \in Hosts
    /\ ret = <<"none">>
    /\ closures = 0
    /\ hist = [n |-> [o \in OpNames |-> 0], last |-> "new",
               twice |-> FALSE, panSum |-> Zero, panExact |-> TRUE]

-----------------------------------------------------------------------------
(* Actions *)

\* Game::setup_boxes_scene
SetupBoxesScene ==
    /\ Total < MaxOps
    /\ world' = setup_nphysics_boxes_scene(world)
    /\ console' = Append(console, <<"make_ground">>)
    /\ hist' = Record("setup_boxes_scene")
    /\ UNCHANGED <<x_offset, canvas, listeners, host, ret, closures>>

\* Game::pan
Pan(x) ==
    /\ Total < MaxOps
    /\ x_offset' = FAdd(x_offset, x)
    /\ hist' = [Record("pan") EXCEPT
                    !.panSum = ExactAdd(hist.panSum, x),
                    !.panExact = hist.panExact /\ InExactRange(ExactAdd(hist.panSum, x))]
    /\ UNCHANGED <<world, canvas, listeners, console, host, ret, closures>>

\* a render that also advances the simulation
RenderScene_stepping ==
    /\ Total < MaxOps
    /\ LET calls == CanvasCalls(RenderCalls(world, x_offset))
           ctx == CtxRun([stack |-> canvas.stack, xf |-> canvas.xf], calls, 1, Len(calls))
       IN  canvas' = [stack |-> ctx.stack, xf |-> ctx.xf, log |-> calls]
    /\ world' = [world EXCEPT !.ticks = @ + 1]
    /\ console' = console \o DebugLines(RenderCalls(world, x_offset))
    /\ hist' = Record("render_scene")
    /\ UNCHANGED <<x_offset, listeners, host, ret, closures>>

\* Game::render_scene
RenderScene ==
    /\ Total < MaxOps
    /\ LET effects == RenderCalls(world, x_offset)
           calls == CanvasCalls(effects)
           ctx == CtxRun([stack |-> canvas.stack, xf |-> canvas.xf], calls, 1, Len(calls))
       IN  /\ canvas' = [stack |-> ctx.stack, xf |-> ctx.xf, log |-> calls]
           /\ console' = console \o DebugLines(effects)
    /\ hist' = Record("render_scene")
    /\ UNCHANGED <<x_offset, world, listeners, host, ret, closures>>

\* Game::step
Step ==
    /\ Total < MaxOps
    /\ world' = World_step(world)
    /\ hist' = Record("step")
    /\ UNCHANGED <<x_offset, canvas, listeners, console, host, ret, closures>>

\* a listener that returns Ok when there is no document to listen on
ListenForKeys_silent ==
    /\ Total < MaxOps
    /\ hist' = Record("listen_for_keys")
    /\ IF host # "ok"
       THEN /\ ret' = <<"Ok">>
            /\ UNCHANGED <<listeners, closures>>
       ELSE /\ closures' = closures + 1
            /\ listeners' = Append(listeners, <<"keydown", closures + 1>>)
            /\ ret' = <<"Ok">>
    /\ UNCHANGED <<x_offset, world, canvas, console, host>>

\* listen_for_keys: get_document panics without a window or a document;
\* otherwise a fresh closure is created and added, and the call returns Err when
\* add_event_listener_with_callback does (the closure is then dropped)
ListenForKeys ==
    /\ Total < MaxOps
    /\ hist' = Record("listen_for_keys")
    /\ IF host # "ok"
       THEN /\ ret' = get_document
            /\ UNCHANGED <<listeners, closures>>
       ELSE \E thrown \in BOOLEAN :
            /\ closures' = closures + 1
            /\ IF thrown
               THEN ret' = <<"Err", "JsValue">> /\ UNCHANGED listeners
               ELSE /\ listeners' = add_event_listener(listeners, "keydown", closures + 1)
                    /\ ret' = <<"Ok">>
    /\ UNCHANGED <<x_offset, world, canvas, console, host>>

\* the host dispatches a keydown event on the document: every keydown
\* listener runs once, in order of registration, and logs the key
KeyDown(key) ==
    /\ Total < MaxOps
    /\ console' = console \o [k \in 1..Len(SelectSeq(listeners, LAMBDA l : l[1] = "keydown"))
                                |-> <<"down wityh all the keys", key>>]
    /\ hist' = Record("keydown")
    /\ UNCHANGED <<x_offset, world, canvas, listeners, host, ret, closures>>

Next ==
    \/ SetupBoxesScene
    \/ \E x \in PanArgs : Pan(x)
    \/ RenderScene
    \/ Step
    \/ ListenForKeys
    \/ \E key \in Keys : KeyDown(key)

Spec == Init /\ [][Next]_vars

-----------------------------------------------------------------------------
(* The renderer as a function of the World: any small World as input,     *)
(* among them Worlds with non-box shapes and bodies that are not rigid    *)
(* bodies, which the scene builder never creates.                         *)

\* number of colliders of an input World
MaxColliders == 2

BodyMenu ==
    << make_simple_body(<<0, 0, 0>>, make_box_shape(radx, rady)),
       [make_simple_body(<<0, 0, 0>>, make_box_shape(radx, rady)) EXCEPT !.kind = "multibody"] >>

ShapeMenu == {make_box_shape(radx, rady), [kind |-> "Ball", radius |-> radx]}

ColliderMenu(bs) ==
    {[make_simple_collider(sh, h) EXCEPT !.margin = Margin] : sh \in ShapeMenu, h \in 0..Len(bs)}

RendererWorlds ==
    {w \in {[World_new EXCEPT !.bodies = bs, !.colliders = cs] :
                bs \in {<<>>, BodyMenu},
                cs \in UNION {[1..n -> ColliderMenu(BodyMenu)] : n \in 0..MaxColliders}} :
        \A k \in 1..Len(w.colliders) : w.colliders[k].body <= Len(w.bodies)}

\* the Worlds the scene builder makes of the input Worlds of at most one collider
BuiltWorlds ==
    {setup_nphysics_boxes_scene(w) : w \in {v \in RendererWorlds : Len(v.colliders) <= 1}}

InitRenderer ==
    /\ x_offset = Zero
    /\ world \in RendererWorlds \cup BuiltWorlds
    /\ canvas = [stack |-> <<>>, xf |-> <<>>, log |-> <<>>]
    /\ listeners = <<>>
    /\ console = << <<"game config">> >>
    /\ host = "ok"
    /\ ret = <<"none">>
    /\ closures = 0
    /\ hist = [n |-> [o \in OpNames |-> 0], last |-> "new",
               twice |-> FALSE, panSum |-> Zero, panExact |-> TRUE]

NextRenderer ==
    \/ RenderScene
    \/ Step

SpecRenderer == InitRenderer /\ [][NextRenderer]_vars

-----------------------------------------------------------------------------
(* Properties *)

\* the step taken is a call of op
Did(op) == hist'.last = op /\ hist'.n[op] = hist.n[op] + 1

Count(seq, name) == Len(SelectSeq(seq, LAMBDA e : e[1] = name))

\* the colliders in ground: those attached to BodyHandle::ground()
GroundColliders == SelectSeq(world.colliders, LAMBDA c : c.body = GroundHandle)

\* the colliders of a rigid body with the given kind of shape / another kind
RigidWith(kind) ==
    SelectSeq(world.colliders,
              LAMBDA c : /\ c.body \in 1..Len(world.bodies)
                         /\ world.bodies[c.body].kind = "rigid"
                         /\ c.shape.kind = kind)
RigidWithout(kind) ==
    SelectSeq(world.colliders,
              LAMBDA c : /\ c.body \in 1..Len(world.bodies)
                         /\ world.bodies[c.body].kind = "rigid"
                         /\ c.shape.kind # kind)

Fills == Count(canvas.log, "fill")

\* C1 (as claimed): in every state the camera offset equals the sum of the
\* arguments of all pan calls made so far.
C1_OffsetIsSumOfPans == x_offset = hist.panSum

\* C1 (amended): the offset starts at 0; every pan(x) sets it to the double
\* nearest to offset + x (ties to even) with no clamping; no other operation
\* changes it; and as long as every partial sum of the pan arguments has
\* magnitude at most 2^53 the offset equals their exact sum, so that there
\* pan(a); pan(b), pan(b); pan(a) and pan(a + b) leave the same offset.
C1_OffsetIsRoundedSum ==
    /\ x_offset = Zero
    /\ [](hist.panExact => x_offset = hist.panSum)
    /\ [](\A a, b \in PanArgs :
            (/\ InExactRange(x_offset)
             /\ InExactRange(ExactAdd(x_offset, a))
             /\ InExactRange(ExactAdd(x_offset, b))
             /\ InExactRange(ExactAdd(a, b))
             /\ InExactRange(ExactAdd(ExactAdd(x_offset, a), b)))
            => /\ FAdd(FAdd(x_offset, a), b) = FAdd(x_offset, FAdd(a, b))
               /\ FAdd(FAdd(x_offset, a), b) = FAdd(FAdd(x_offset, b), a)
               /\ FAdd(FAdd(x_offset, a), b) = ExactAdd(ExactAdd(x_offset, a), b))
    /\ [][/\ Did("pan") =>
                \E x \in PanArgs : /\ hist'.panSum = ExactAdd(hist.panSum, x)
                                   /\ x_offset' = Round(ExactAdd(x_offset, x))
          /\ ~Did("pan") => x_offset' = x_offset]_vars

C1_Witness ==
    /\ hist.n["pan"] >= 2
    /\ hist.n["step"] >= 1
    /\ hist.panExact
    /\ x_offset = F64(0, 2)

\* C2: after exactly one setup_boxes_scene on the Game's fresh World there
\* are num * num = 625 rigid bodies and 626 colliders: exactly one collider
\* on the ground, and for every body exactly one collider, attached to it
\* and of the box shape the body was made of.
C2_OneSetupBuildsGrid ==
    hist.n["setup_boxes_scene"] = 1 =>
        /\ Len(world.bodies) = num * num
        /\ Len(world.bodies) = 625
        /\ Len(world.colliders) = 626
        /\ Len(GroundColliders) = 1
        /\ {world.colliders[k].body : k \in 1..Len(world.colliders)} = 0..Len(world.bodies)
        /\ \A k \in 1..Len(world.colliders) :
              LET c == world.colliders[k]
              IN  c.body # GroundHandle =>
                    /\ world.bodies[c.body].kind = "rigid"
                    /\ c.shape.kind = "Cuboid"
                    /\ c.shape = world.bodies[c.body].inertiaOf

C2_Witness ==
    /\ hist.n["setup_boxes_scene"] = 1
    /\ hist.last = "setup_boxes_scene"
    /\ Len(world.bodies) = 625
    /\ Len(world.colliders) = 626

\* C3: a render clears once and fills one rectangle per collider that has
\* a rigid body and a box shape, and none for any other collider: none on
\* a World without colliders, none for a collider on the ground, none for
\* a non-box collider (each of those on a rigid body is logged instead),
\* and 625 on the World one setup makes of the empty World.
C3_OneFillPerBox ==
    hist.last = "render_scene" =>
        /\ Count(canvas.log, "clear_rect") = 1
        /\ Fills = Len(RigidWith("Cuboid"))
        /\ Count(canvas.log, "rect") = Fills
        /\ Count(canvas.log, "begin_path") = Fills
        /\ world.colliders = <<>> => Fills = 0
        /\ Len(GroundColliders) = Len(world.colliders) => Fills = 0
        /\ Len(RigidWith("Cuboid")) = 0 => Fills = 0
        /\ Count(console, "not painting") = hist.n["render_scene"] * Len(RigidWithout("Cuboid"))
        /\ world.colliders = setup_nphysics_boxes_scene(World_new).colliders => Fills = 625

C3_Witness ==
    /\ hist.last = "render_scene"
    /\ Fills = 625
    /\ Len(GroundColliders) = 1
    /\ Len(RigidWithout("Cuboid")) = 1
    /\ Count(console, "not painting") = 1

\* C4: a render_scene call leaves the World (bodies, colliders, poses,
\* gravity, ticks), the camera offset and the listeners as they were, and a
\* render directly after a render issues the same calls and leaves the
\* same drawing state.
C4_RenderOnlyDraws ==
    [][Did("render_scene") =>
            /\ world' = world
            /\ x_offset' = x_offset
            /\ listeners' = listeners
            /\ hist'.twice => canvas' = canvas]_vars

C4_Witness ==
    /\ hist.twice
    /\ Len(world.bodies) = 625
    /\ Fills = 625

\* C5: a listen_for_keys call on a host without window or document panics
\* in get_document, adds no listener, creates no closure and changes
\* nothing else; a call that returns Ok has added one keydown listener.
C5_NoDocumentNoListener ==
    /\ [](host # "ok" => listeners = <<>>)
    /\ [][Did("listen_for_keys") =>
            /\ host # "ok" =>
                  /\ ret'[1] = "panic"
                  /\ listeners' = listeners
                  /\ closures' = closures
                  /\ UNCHANGED <<x_offset, world, canvas, console>>
            /\ ret' = <<"Ok">> =>
                  /\ host = "ok"
                  /\ Len(listeners') = Len(listeners) + 1
                  /\ listeners'[Len(listeners')][1] = "keydown"]_vars

C5_Witness ==
    /\ host = "no_document"
    /\ hist.last = "listen_for_keys"
    /\ ret = <<"panic", "should have a document on window">>
    /\ listeners = <<>>

\* C6: the World's tick count equals the number of step calls made so far;
\* it never decreases, only step changes it, by exactly one, and step
\* leaves the camera offset and the canvas as they were.
C6_OneTickPerStep ==
    /\ [](world.ticks = hist.n["step"])
    /\ [][/\ world'.ticks >= world.ticks
          /\ Did("step") =>
                /\ world'.ticks = world.ticks + 1
                /\ x_offset' = x_offset
                /\ canvas' = canvas
          /\ ~Did("step") => world'.ticks = world.ticks]_vars

C6_Witness ==
    /\ hist.n["step"] = 2
    /\ world.ticks = 2
    /\ hist.n["keydown"] + hist.n["pan"] + hist.n["render_scene"] >= 1

\* C7 (as claimed): the World holds at most one ground collider and at
\* most 625 boxes, whatever calls were made.
C7_PopulatedOnce ==
    /\ Len(GroundColliders) <= 1
    /\ Len(world.bodies) <= 625

\* C8: one render issues clear_rect, save, translate(offset, 0), then for
\* every drawn collider begin_path, save, scale, translate, rotate, rect,
\* fill, restore, and last restore; the only translation outside the boxes'
\* save / restore is the pan; and the drawing state after the render is the
\* one before it: an empty stack and the identity transform.
C8_RenderIsBracketed ==
    /\ canvas.stack = <<>>
    /\ canvas.xf = <<>>
    /\ hist.n["render_scene"] >= 1 =>
        LET log == canvas.log
            n == Len(log)
        IN  /\ n >= 4
            /\ log[1] = <<"clear_rect">>
            /\ log[2] = <<"save">>
            /\ log[3][1] = "translate" /\ log[3][3] = 0
            /\ hist.last = "render_scene" => log[3][2] = x_offset
            /\ log[n] = <<"restore">>
            /\ (n - 4) % 8 = 0
            /\ \A g \in 0..(((n - 4) \div 8) - 1) :
                  [k \in 1..8 |-> log[3 + 8 * g + k][1]] =
                      <<"begin_path", "save", "scale", "translate", "rotate",
                        "rect", "fill", "restore">>
            /\ Count(log, "save") = Count(log, "restore")

C8_Witness ==
    /\ hist.last = "render_scene"
    /\ x_offset = One
    /\ canvas.log[3] = <<"translate", One, 0>>
    /\ Fills = 625

\* C9 (as claimed): the columns of the grid are centred on x = 0 (the
\* leftmost centre is minus the rightmost one, the column coordinates sum
\* to 0) and the first row lies entirely at y > 0.
C9_GridIsCentred ==
    hist.n["setup_boxes_scene"] >= 1 =>
        LET col(i) == world.bodies[i * num + 1]
        IN  /\ col(0).x = 0 - col(num - 1).x
            /\ col(0).x + col(num - 1).x = 0
            /\ \A i \in 0..(num - 1) : col(i).x + col(num - 1 - i).x = 0
            /\ \A i \in 0..(num - 1) : col(i).y - rady > 0

\* C10 (as claimed): the document never has more than one keydown listener.
C10_AtMostOneSubscription == Len(listeners) <= 1

\* C10 (amended): every listen_for_keys call that returns Ok adds one more
\* keydown listener with a closure of its own, so the document has as many
\* as there were such calls; listeners are never removed; a keydown event
\* logs its key once per listener, in one step of its own, and leaves the
\* World, the camera offset and the canvas as they were.
C10_OneListenerPerCall ==
    /\ [](\A j, k \in 1..Len(listeners) :
            /\ listeners[k][1] = "keydown"
            /\ listeners[j] = listeners[k] => j = k)
    /\ [][/\ Len(listeners') >= Len(listeners)
          /\ SubSeq(listeners', 1, Len(listeners)) = listeners
          /\ Did("listen_for_keys") =>
                Len(listeners') = Len(listeners) + (IF ret' = <<"Ok">> THEN 1 ELSE 0)
          /\ ~Did("listen_for_keys") => listeners' = listeners
          /\ Did("keydown") =>
                /\ \E key \in Keys :
                      console' = console \o [k \in 1..Len(listeners) |->
                                                <<"down wityh all the keys", key>>]
                /\ UNCHANGED <<x_offset, world, canvas>>]_vars

C10_Witness ==
    /\ Len(listeners) = 2
    /\ hist.last = "keydown"
    /\ Count(console, "down wityh all the keys") = 2

====
